---- MODULE Spec2Model ----
(***************************************************************************)
(* CyberSentinel ingestion-to-mitigation pipeline.                         *)
(*                                                                         *)
(* Three threads of one process:                                           *)
(*   main      dashboard/app.py  main()            (lines 91-125)          *)
(*   sniffer   realtime/packet_sniffer.py  start_sniff._run                *)
(*   engine    realtime/detection_engine.py DetectionEngine._run           *)
(* sharing the queue in_q, main's stop_event (handed to the sniffer) and   *)
(* the engine's own _stop_event.                                           *)
(*                                                                         *)
(* Probabilities are integers in hundredths (0.75 is 75).                  *)
(* Spec and FairSpec cover the pipeline while the owning process is alive  *)
(* and the alert log is writable.  Further specifications add what Next    *)
(* leaves out:                                                             *)
(*   SpecShutdown  the end of the process after main's final sleep         *)
(*   SpecStorage   a failing write in _log_alert                           *)
(*   SpecApi       DetectionEngine driven by a caller that fills the queue *)
(*   SpecRestart   the same with start() called more than once             *)
(*   SpecExtract   extract_features called by itself                       *)
(***************************************************************************)
EXTENDS Integers, Sequences, FiniteSets, TLC

\* ----------------------------------------------------------------- bounds
\* Observations the simulate / live source may produce in one run.
MaxProduced == 3
\* Records in the capture file of pcap mode.
MaxRecords == 2
\* The capacity a bounded channel is claimed to have (the code passes none).
ChannelCapacity == 2

\* ------------------------------------------------------ program constants
\* queue.Queue() with no argument: maxsize 0, which Python reads as infinite.
maxsize == 0
\* --threshold default 0.75, in hundredths.
threshold == 75

\* The classifier's answers the model distinguishes: below, at and above
\* the threshold.
ProbValues == {10, 75, 90}
NoProb == 0 - 1
NoCmd == <<>>
None == [kind |-> "none"]
\* What a record of a capture file can be.
CaptureRecords == {"10.0.0.1", "10.0.0.2", "noip"}
\* A key the observation dictionary does not have.
Absent == "<absent>"
\* The keys extract_features reads.
PacketKeys ==
  {"src_ip", "dst_ip", "src_port", "dst_port", "protocol", "length",
   "tcp_flags", "timestamp"}
Ids == 1..(MaxProduced + MaxRecords)

VARIABLES
  \* configuration (argparse in main), fixed after Init
  mode, iface, pcap, scapy, capture, mitigation_mode,
  \* shared objects
  in_q, stop_event, engine_stop_event, alert_log, blocklist,
  \* thread positions; cpc2 is the thread of a second start() call
  mpc, ppc, cpc, cpc2,
  \* sniffer locals
  pidx,
  \* engine locals
  pkt, prob, cmd, exc,
  \* history
  enqueued, processed, probOf, classifyCalls, recordCalls, applyCalls,
  getsAfterStop, processedAtStop,
  \* extract_features called by itself: its argument and what the calls gave
  packet, results

cfgvars == <<mode, iface, pcap, scapy, capture, mitigation_mode>>
histvars == <<enqueued, processed, probOf, classifyCalls, recordCalls, applyCalls,
              getsAfterStop>>
enginevars == <<cpc, cpc2, pkt, prob, cmd, exc>>
extractvars == <<packet, results>>
vars == <<mode, iface, pcap, scapy, capture, mitigation_mode,
          in_q, stop_event, engine_stop_event, alert_log, blocklist,
          mpc, ppc, cpc, cpc2, pidx, pkt, prob, cmd, exc,
          enqueued, processed, probOf, classifyCalls, recordCalls, applyCalls,
          getsAfterStop, processedAtStop, packet, results>>

\* --------------------------------------------------------------- helpers
RECURSIVE SeqsUpTo(_, _)
SeqsUpTo(S, n) ==
  IF n = 0 THEN {<<>>}
  ELSE LET shorter == SeqsUpTo(S, n - 1)
       IN shorter \cup {Append(s, x) : s \in {t \in shorter : Len(t) = n - 1}, x \in S}

NextId == Len(enqueued) + 1

\* _make_synthetic_packet: addresses from two disjoint demonstration ranges.
\* Ports, protocol, length, flags and timestamp are always well-formed and
\* only feed the classifier, whose answer is drawn in Classify.
make_synthetic_packet(id) ==
  [kind |-> "pkt", id |-> id, src_ip |-> "192.0.2.x", dst_ip |-> "198.51.100.x"]

\* _scapy_to_dict: a record without an IP layer makes ip.src raise, which
\* the except turns into None.
scapy_to_dict(p, id) ==
  IF p # "noip"
  THEN [kind |-> "pkt", id |-> id, src_ip |-> p, dst_ip |-> "ip.dst"]
  ELSE None

\* {"__error__": msg}
error_item(id, msg) == [kind |-> "err", id |-> id, msg |-> msg]

\* queue.Queue.full(): 0 < maxsize <= qsize()
full(q) == maxsize > 0 /\ Len(q) >= maxsize

\* out_q.put(item): blocks while the queue is full, then appends.
put(item) ==
  /\ ~full(in_q)
  /\ in_q' = Append(in_q, item)
  /\ enqueued' = Append(enqueued, item)


\* ------------------------------------------------------------------ Init
\* argparse: --mode, --pcap, --iface, --mitigation.  scapy says whether the
\* import of scapy.all succeeds; capture holds the records of a readable
\* capture file (the source address of a record with an IP layer, "noip"
\* for a record without one); an interface named "down0" is one sniff()
\* cannot attach to.
InitPipeline ==
  /\ mode \in {"simulate", "pcap", "live"}
  /\ mitigation_mode \in {"dry-run", "apply"}
  /\ scapy \in (IF mode = "simulate" THEN {TRUE} ELSE BOOLEAN)
  /\ pcap \in (IF mode = "pcap" THEN {"", "missing.pcap", "ok.pcap"} ELSE {""})
  /\ iface \in (IF mode = "live" THEN {"", "down0", "eth0"} ELSE {""})
  /\ capture \in (IF scapy /\ pcap = "ok.pcap"
                  THEN SeqsUpTo(CaptureRecords, MaxRecords) ELSE {<<>>})
  /\ in_q = <<>>
  /\ stop_event = FALSE
  /\ engine_stop_event = FALSE
  /\ alert_log = <<>>
  /\ blocklist = {}
  /\ mpc = "start_sniff"
  /\ ppc = "idle"
  /\ cpc = "idle"
  /\ cpc2 = "idle"
  /\ pidx = 1
  /\ pkt = None
  /\ prob = NoProb
  /\ cmd = NoCmd
  /\ exc = ""
  /\ enqueued = <<>>
  /\ processed = <<>>
  /\ probOf = [i \in Ids |-> NoProb]
  /\ classifyCalls = [i \in Ids |-> 0]
  /\ recordCalls = [i \in Ids |-> 0]
  /\ applyCalls = [i \in Ids |-> 0]
  /\ getsAfterStop = 0
  /\ processedAtStop = 0

\* No call of extract_features outside the engine: an empty dictionary and
\* no result.
Init ==
  /\ InitPipeline
  /\ packet = [k \in PacketKeys |-> "missing"]
  /\ results = <<>>

\* ------------------------------------------------------------------ main
\* app.py:101-106  pkt_q = queue.Queue(); stop_event = Event(); start_sniff(...)
MainStartSniff ==
  /\ mpc = "start_sniff"
  /\ mpc' = "start_engine"
  /\ ppc' = "run"
  /\ UNCHANGED <<cfgvars, extractvars, in_q, stop_event, engine_stop_event, processedAtStop, alert_log,
                 blocklist, pidx, enginevars, histvars>>

\* app.py:109-111  engine = DetectionEngine(...); engine.start()
\* __init__ creates the engine's own _stop_event (detection_engine.py:29).
MainStartEngine ==
  /\ mpc = "start_engine"
  /\ mpc' = "wait"
  /\ cpc' = "loop"
  /\ engine_stop_event' = FALSE
  /\ UNCHANGED processedAtStop
  /\ UNCHANGED <<cfgvars, extractvars, in_q, stop_event, alert_log, blocklist, ppc, pidx,
                 cpc2, pkt, prob, cmd, exc, histvars>>

\* app.py:118-123  KeyboardInterrupt during the sleep loop; stop_event.set()
MainInterrupt ==
  /\ mpc = "wait"
  /\ mpc' = "engine_stop"
  /\ stop_event' = TRUE
  /\ UNCHANGED <<cfgvars, extractvars, in_q, engine_stop_event, processedAtStop, alert_log, blocklist, ppc,
                 pidx, enginevars, histvars>>

\* app.py:124-125  engine.stop(), which sets engine._stop_event; then sleep.
MainEngineStop ==
  /\ mpc = "engine_stop"
  /\ mpc' = "sleep"
  /\ engine_stop_event' = TRUE
  /\ processedAtStop' = IF engine_stop_event THEN processedAtStop ELSE Len(processed)
  /\ UNCHANGED <<cfgvars, extractvars, in_q, stop_event, alert_log, blocklist, ppc, pidx,
                 enginevars, histvars>>

Main == MainStartSniff \/ MainStartEngine \/ MainInterrupt \/ MainEngineStop

\* --------------------------------------------------------------- sniffer
snifferUnchanged ==
  UNCHANGED <<cfgvars, extractvars, stop_event, engine_stop_event, processedAtStop, alert_log, blocklist,
              mpc, enginevars, processed, probOf, classifyCalls,
              recordCalls,
              applyCalls, getsAfterStop>>

\* packet_sniffer.py:52  while not stop_event.is_set()
SimCheck ==
  /\ ppc = "run" /\ mode = "simulate"
  /\ ppc' = IF stop_event THEN "done" ELSE "sim_put"
  /\ UNCHANGED <<in_q, enqueued, pidx>>
  /\ snifferUnchanged

\* packet_sniffer.py:53-55  make a packet, put it, sleep
SimPut ==
  /\ ppc = "sim_put"
  /\ NextId <= MaxProduced
  /\ put(make_synthetic_packet(NextId))
  /\ ppc' = "run"
  /\ UNCHANGED pidx
  /\ snifferUnchanged

\* packet_sniffer.py:59-63  the import of scapy fails
ImportFails ==
  /\ ppc = "run" /\ mode # "simulate" /\ ~scapy
  /\ put(error_item(NextId, "scapy not available"))
  /\ ppc' = "done"
  /\ UNCHANGED pidx
  /\ snifferUnchanged

\* packet_sniffer.py:59-60  the import succeeds
ImportOk ==
  /\ ppc = "run" /\ mode # "simulate" /\ scapy
  /\ ppc' = "scapy"
  /\ UNCHANGED <<in_q, enqueued, pidx>>
  /\ snifferUnchanged

\* packet_sniffer.py:96-99  pcap mode without a path
PcapNoPath ==
  /\ ppc = "scapy" /\ mode = "pcap" /\ pcap = ""
  /\ put(error_item(NextId, "pcap mode selected but no pcap path provided"))
  /\ ppc' = "done"
  /\ UNCHANGED pidx
  /\ snifferUnchanged

\* Faulty variant of PcapReadFails: the except branch without its return.
PcapReadFailsNoReturn ==
  /\ ppc = "scapy" /\ mode = "pcap" /\ pcap = "missing.pcap"
  /\ NextId <= MaxProduced
  /\ put(error_item(NextId, "failed to read pcap"))
  /\ ppc' = "scapy"
  /\ UNCHANGED pidx
  /\ snifferUnchanged

\* packet_sniffer.py:100-104  rdpcap raises: one error item, return
PcapReadFails ==
  /\ ppc = "scapy" /\ mode = "pcap" /\ pcap = "missing.pcap"
  /\ put(error_item(NextId, "failed to read pcap"))
  /\ ppc' = "done"
  /\ UNCHANGED pidx
  /\ snifferUnchanged

\* packet_sniffer.py:100-101  rdpcap returns the records
PcapRead ==
  /\ ppc = "scapy" /\ mode = "pcap" /\ pcap = "ok.pcap"
  /\ ppc' = "pcap_iter"
  /\ pidx' = 1
  /\ UNCHANGED <<in_q, enqueued>>
  /\ snifferUnchanged

\* Faulty variant of PcapIter: the loop ends before the last record.
PcapIterStopsEarly ==
  /\ ppc = "pcap_iter"
  /\ IF pidx >= Len(capture) \/ stop_event
     THEN /\ ppc' = "done"
          /\ UNCHANGED <<in_q, enqueued, pidx>>
     ELSE /\ LET d == scapy_to_dict(capture[pidx], NextId)
             IN IF d # None THEN put(d) ELSE UNCHANGED <<in_q, enqueued>>
          /\ pidx' = pidx + 1
          /\ ppc' = "pcap_iter"
  /\ snifferUnchanged

\* packet_sniffer.py:105-111  one turn of  for p in packets
PcapIter ==
  /\ ppc = "pcap_iter"
  /\ IF pidx > Len(capture) \/ stop_event
     THEN /\ ppc' = "done"
          /\ UNCHANGED <<in_q, enqueued, pidx>>
     ELSE /\ LET d == scapy_to_dict(capture[pidx], NextId)
             IN IF d # None THEN put(d) ELSE UNCHANGED <<in_q, enqueued>>
          /\ pidx' = pidx + 1
          /\ ppc' = "pcap_iter"
  /\ snifferUnchanged

\* packet_sniffer.py:113-116  live mode without an interface
LiveNoIface ==
  /\ ppc = "scapy" /\ mode = "live" /\ iface = ""
  /\ put(error_item(NextId, "live mode requires iface"))
  /\ ppc' = "done"
  /\ UNCHANGED pidx
  /\ snifferUnchanged

\* packet_sniffer.py:123  sniff() cannot attach and raises; nothing catches
\* it, the thread ends with the exception.
LiveAttachFails ==
  /\ ppc = "scapy" /\ mode = "live" /\ iface = "down0"
  /\ ppc' = "crashed"
  /\ UNCHANGED <<in_q, enqueued, pidx>>
  /\ snifferUnchanged

\* packet_sniffer.py:123  sniff() attaches
LiveAttach ==
  /\ ppc = "scapy" /\ mode = "live" /\ iface = "eth0"
  /\ ppc' = "live_sniff"
  /\ UNCHANGED <<in_q, enqueued, pidx>>
  /\ snifferUnchanged

\* packet_sniffer.py:118-123  a packet arrives: _callback, then stop_filter.
\* sniff() evaluates stop_filter only after a packet.
LivePacket ==
  /\ ppc = "live_sniff"
  /\ \E p \in {"10.0.0.1", "noip"} :
       LET d == scapy_to_dict(p, NextId)
       IN IF d # None
          THEN NextId <= MaxProduced /\ put(d)
          ELSE UNCHANGED <<in_q, enqueued>>
  /\ ppc' = IF stop_event THEN "done" ELSE "live_sniff"
  /\ UNCHANGED pidx
  /\ snifferUnchanged

\* The steps the sniffer thread takes by itself.  LivePacket is not one of
\* them: it needs a packet to arrive on the interface.
SnifferOwnSteps ==
  \/ SimCheck \/ SimPut \/ ImportFails \/ ImportOk
  \/ PcapNoPath \/ PcapReadFails \/ PcapRead \/ PcapIter
  \/ LiveNoIface \/ LiveAttachFails \/ LiveAttach

Sniffer == SnifferOwnSteps \/ LivePacket


\* ---------------------------------------------------------------- engine
engineUnchanged ==
  UNCHANGED <<cfgvars, extractvars, stop_event, engine_stop_event, processedAtStop, mpc, ppc, pidx, cpc2, enqueued>>

\* Faulty variant of LoopCondition: the loop never looks at the stop event.
LoopConditionAlwaysTrue == TRUE

\* detection_engine.py:53  while not self._stop_event.is_set()
LoopCondition == ~engine_stop_event

\* Faulty variant of q_get: the newest item is taken instead of the oldest.
q_get_lifo(q) == [item |-> q[Len(q)], rest |-> SubSeq(q, 1, Len(q) - 1)]

\* queue.Queue.get on a non-empty FIFO queue: popleft.
q_get(q) == [item |-> Head(q), rest |-> Tail(q)]

\* Faulty variant of is_error: the __error__ key is never recognised.
is_error_never(p) == FALSE

\* detection_engine.py:60  isinstance(pkt, dict) and pkt.get("__error__")
is_error(p) == p.kind = "err"

\* dict.get(key, default): the default only when the key is absent; a key
\* that is present with an empty value keeps that value.
get(value, default) == IF value = Absent THEN default ELSE value

\* feature_extractor.py:45-46  the address fields pass through, an absent
\* one becomes "0.0.0.0"; the numeric and categorical fields only feed the
\* classifier.
extract_features(p) ==
  [id |-> p.id, src_ip |-> get(p.src_ip, "0.0.0.0"), dst_ip |-> get(p.dst_ip, "0.0.0.0")]

\* detection_engine.py:39  features.get("src_ip") or features.get("dst_ip"):
\* the source address unless it is falsy (empty or None), and then the
\* destination address whatever it is.
mitigation_target(features) ==
  IF features.src_ip # "" THEN features.src_ip ELSE features.dst_ip

\* mitigation.add_to_blocklist(ip): recording is idempotent, the block list
\* behaves as a set.
add_to_blocklist(bl, ip) == bl \cup {ip}

\* mitigation.apply_block(ip, mode): the command description.
apply_block(ip, m) == <<m, ip>>

\* Either mitigation call may fail (unresolvable address, unreachable
\* enforcement backend, unwritable block list).
mitigation_may_fail == TRUE

\* detection_engine.py:68-75  the alert dictionary
make_alert(features, p, c) ==
  [type |-> "alert", id |-> features.id, src_ip |-> features.src_ip,
   dst_ip |-> features.dst_ip, probability |-> p, mitigation_cmd |-> c]

\* detection_engine.py:62  the diagnostic record of an error item
sniffer_error(p) == [type |-> "sniffer_error", id |-> p.id, msg |-> p.msg]

\* detection_engine.py:34-36  _log_alert: append one line
log_alert(rec) == alert_log' = Append(alert_log, rec)

Count(b) == IF b THEN 1 ELSE 0

\* detection_engine.py:53  the loop test
Check ==
  /\ cpc = "loop"
  /\ cpc' = IF LoopCondition THEN "get" ELSE "done"
  /\ UNCHANGED <<in_q, alert_log, blocklist, pkt, prob, cmd, exc, processed,
                 probOf, classifyCalls, recordCalls, applyCalls, getsAfterStop>>
  /\ engineUnchanged

\* detection_engine.py:55-57  get(timeout=1.0) on a queue that stays empty
GetTimeout ==
  /\ cpc = "get"
  /\ in_q = <<>>
  /\ cpc' = "loop"
  /\ getsAfterStop' = getsAfterStop + Count(engine_stop_event)
  /\ UNCHANGED <<in_q, alert_log, blocklist, pkt, prob, cmd, exc, processed,
                 probOf, classifyCalls, recordCalls, applyCalls>>
  /\ engineUnchanged

\* detection_engine.py:55-63  get returns an item; an error item is logged
\* and the loop continues, a packet goes on to line 65.
Get ==
  /\ cpc = "get"
  /\ in_q # <<>>
  /\ LET g == q_get(in_q)
     IN /\ in_q' = g.rest
        /\ processed' = Append(processed, g.item)
        /\ pkt' = g.item
        /\ IF is_error(g.item)
           THEN /\ log_alert(sniffer_error(g.item))
                /\ cpc' = "loop"
           ELSE /\ UNCHANGED alert_log
                /\ cpc' = "classify"
  /\ getsAfterStop' = getsAfterStop + Count(engine_stop_event)
  /\ prob' = NoProb
  /\ cmd' = NoCmd
  /\ UNCHANGED <<blocklist, exc, probOf, classifyCalls, recordCalls, applyCalls>>
  /\ engineUnchanged

\* detection_engine.py:65-67  extract_features, predict_proba returns p,
\* the comparison with the threshold
ClassifyReturns ==
  /\ cpc = "classify"
  /\ \E p \in ProbValues :
       /\ prob' = p
       /\ probOf' = [probOf EXCEPT ![pkt.id] = p]
       /\ cpc' = IF p >= threshold THEN "record" ELSE "loop"
  /\ classifyCalls' = [classifyCalls EXCEPT ![pkt.id] = @ + 1]
  /\ UNCHANGED <<in_q, alert_log, blocklist, pkt, cmd, exc, processed,
                 recordCalls, applyCalls, getsAfterStop>>
  /\ engineUnchanged

\* detection_engine.py:66  predict_proba raises; _run has no handler, the
\* exception ends the thread.
ClassifyRaises ==
  /\ cpc = "classify"
  /\ classifyCalls' = [classifyCalls EXCEPT ![pkt.id] = @ + 1]
  /\ cpc' = "crashed"
  /\ exc' = "ClassifierError"
  /\ UNCHANGED <<in_q, alert_log, blocklist, pkt, prob, cmd, processed,
                 probOf, recordCalls, applyCalls, getsAfterStop>>
  /\ engineUnchanged

\* Faulty variant of RecordReturns: the alert is logged without apply_block.
RecordReturnsThenLog ==
  /\ cpc = "record"
  /\ blocklist' = add_to_blocklist(blocklist, mitigation_target(extract_features(pkt)))
  /\ recordCalls' = [recordCalls EXCEPT ![pkt.id] = @ + 1]
  /\ cpc' = "log"
  /\ UNCHANGED <<in_q, alert_log, pkt, prob, cmd, exc, processed,
                 probOf, classifyCalls, applyCalls, getsAfterStop>>
  /\ engineUnchanged

\* detection_engine.py:39-40  add_to_blocklist(ip) returns
RecordReturns ==
  /\ cpc = "record"
  /\ blocklist' = add_to_blocklist(blocklist, mitigation_target(extract_features(pkt)))
  /\ recordCalls' = [recordCalls EXCEPT ![pkt.id] = @ + 1]
  /\ cpc' = "apply"
  /\ UNCHANGED <<in_q, alert_log, pkt, prob, cmd, exc, processed,
                 probOf, classifyCalls, applyCalls, getsAfterStop>>
  /\ engineUnchanged

\* detection_engine.py:40  add_to_blocklist raises; nothing catches it.
RecordRaises ==
  /\ cpc = "record"
  /\ mitigation_may_fail
  /\ recordCalls' = [recordCalls EXCEPT ![pkt.id] = @ + 1]
  /\ cpc' = "crashed"
  /\ exc' = "MitigationError"
  /\ UNCHANGED <<in_q, alert_log, blocklist, pkt, prob, cmd, processed,
                 probOf, classifyCalls, applyCalls, getsAfterStop>>
  /\ engineUnchanged

\* detection_engine.py:41-42,75  apply_block returns the command
ApplyReturns ==
  /\ cpc = "apply"
  /\ cmd' = apply_block(mitigation_target(extract_features(pkt)), mitigation_mode)
  /\ applyCalls' = [applyCalls EXCEPT ![pkt.id] = @ + 1]
  /\ cpc' = "log"
  /\ UNCHANGED <<in_q, alert_log, blocklist, pkt, prob, exc, processed,
                 probOf, classifyCalls, recordCalls, getsAfterStop>>
  /\ engineUnchanged

\* detection_engine.py:41  apply_block raises; nothing catches it.
ApplyRaises ==
  /\ cpc = "apply"
  /\ mitigation_may_fail
  /\ applyCalls' = [applyCalls EXCEPT ![pkt.id] = @ + 1]
  /\ cpc' = "crashed"
  /\ exc' = "MitigationError"
  /\ UNCHANGED <<in_q, alert_log, blocklist, pkt, prob, cmd, processed,
                 probOf, classifyCalls, recordCalls, getsAfterStop>>
  /\ engineUnchanged

\* detection_engine.py:75-76  alert["mitigation_cmd"] = cmd; _log_alert(alert)
LogAlert ==
  /\ cpc = "log"
  /\ log_alert(make_alert(extract_features(pkt), prob, cmd))
  /\ cpc' = "loop"
  /\ UNCHANGED <<in_q, blocklist, pkt, prob, cmd, exc, processed,
                 probOf, classifyCalls, recordCalls, applyCalls, getsAfterStop>>
  /\ engineUnchanged

Engine ==
  \/ Check \/ GetTimeout \/ Get
  \/ ClassifyReturns \/ ClassifyRaises
  \/ RecordReturns \/ RecordRaises
  \/ ApplyReturns \/ ApplyRaises
  \/ LogAlert

\* ------------------------------------------------------- specifications
Next == Main \/ Sniffer \/ Engine

Spec == Init /\ [][Next]_vars

\* The two worker threads are scheduled by the interpreter and keep running
\* while they can; main's KeyboardInterrupt and the arrival of a packet on
\* the live interface are events of the environment and may never come.
\* main runs through its start-up lines and, once interrupted, through
\* engine.stop().
FairSpec ==
  /\ Spec
  /\ WF_vars(Engine)
  /\ WF_vars(SnifferOwnSteps)
  /\ WF_vars(MainStartSniff \/ MainStartEngine \/ MainEngineStop)


\* ------------------------------------------------------- claim vocabulary
\* Alert records in the log for observation i.
AlertsFor(i) ==
  Cardinality({k \in DOMAIN alert_log :
                 alert_log[k].type = "alert" /\ alert_log[k].id = i})

\* Diagnostic records in the log for observation i.
DiagnosticsFor(i) ==
  Cardinality({k \in DOMAIN alert_log :
                 alert_log[k].type # "alert" /\ alert_log[k].id = i})

Dequeued(i) == \E k \in DOMAIN processed : processed[k].id = i

\* The engine is in the middle of handling observation i (lines 65-76).
InHand(i) == pkt # None /\ pkt.id = i /\ cpc \in {"classify", "record", "apply", "log"}

\* The handling of observation i has ended: the loop went on, or the thread
\* ended.
Ended(i) == Dequeued(i) /\ ~InHand(i)

EngineTerminated == cpc \in {"done", "crashed"}

\* C1: every dequeued packet observation with classifier probability p gets
\* exactly one alert record when p >= threshold (p = threshold included) and
\* none, with the log untouched, when p < threshold.
C1_AlertIffAtThreshold ==
  \A i \in Ids :
    probOf[i] # NoProb =>
      /\ AlertsFor(i) <= 1
      /\ probOf[i] < threshold => AlertsFor(i) = 0 /\ DiagnosticsFor(i) = 0
      /\ (probOf[i] >= threshold /\ Ended(i)) => AlertsFor(i) = 1

\* C2: the sequence of observations the engine has dequeued is a prefix of
\* the sequence the sniffer enqueued, and no observation appears in it twice.
C2_ProcessedIsPrefix ==
  /\ Len(processed) <= Len(enqueued)
  /\ processed = SubSeq(enqueued, 1, Len(processed))
  /\ \A j, k \in DOMAIN processed : j # k => processed[j].id # processed[k].id

C2_Witness == Len(processed) >= 2 /\ Len(in_q) >= 1

\* C3: once the engine's stop event is set the loop completes at most one
\* more get and the engine thread then ends, also when the queue is empty
\* and the sniffer produces nothing.
C3_StopBound ==
  /\ [](getsAfterStop <= 1)
  /\ (engine_stop_event ~> EngineTerminated)

C3_Witness ==
  /\ engine_stop_event
  /\ cpc = "done"
  /\ getsAfterStop = 1
  /\ enqueued = <<>>

\* C4: the queue between sniffer and engine never holds more observations
\* than a fixed capacity.
C4_ChannelBounded == Len(in_q) <= ChannelCapacity

\* C5: while no stop event is set, every observation the sniffer enqueued
\* is eventually dequeued by the engine.
C5_NoDrop ==
  \A i \in Ids :
    (Len(enqueued) >= i)
      ~> (Len(processed) >= i \/ stop_event \/ engine_stop_event)

\* C6: sniffer and engine observe one stop signal: the value the sniffer
\* reads and the value the engine reads are the same in every state.
C6_SingleStopSignal == stop_event = engine_stop_event

\* C7: a dequeued error item gets exactly one sniffer_error record, no
\* classifier call and no mitigation call, and the engine goes back to the
\* head of its loop.
C7_ErrorItemHandling ==
  \A k \in DOMAIN processed :
    processed[k].kind = "err" =>
      LET i == processed[k].id
      IN /\ Cardinality({n \in DOMAIN alert_log :
                           /\ alert_log[n].type = "sniffer_error"
                           /\ alert_log[n].id = i}) = 1
         /\ AlertsFor(i) = 0
         /\ classifyCalls[i] = 0
         /\ recordCalls[i] = 0
         /\ applyCalls[i] = 0
         /\ (pkt.id = i => cpc \in {"loop", "get", "done"})

C7_Witness ==
  /\ Len(processed) >= 1
  /\ processed[Len(processed)].kind = "err"
  /\ cpc = "get"
  /\ Len(alert_log) >= 1
  /\ alert_log[Len(alert_log)].type = "sniffer_error"

\* pcap mode, scapy importable, a path given, the file missing or unreadable.
PcapFileUnreadable == mode = "pcap" /\ scapy /\ pcap = "missing.pcap"

C8_OneErrorOnly ==
  PcapFileUnreadable =>
    /\ Len(enqueued) <= 1
    /\ \A k \in DOMAIN enqueued : enqueued[k].kind = "err"
    /\ ppc = "done" <=> Len(enqueued) = 1
    /\ Len(alert_log) <= 1
    /\ Len(processed) = 1 <=> Len(alert_log) = 1
    /\ \A n \in DOMAIN alert_log : alert_log[n].type = "sniffer_error"
    /\ \A i \in Ids : classifyCalls[i] = 0 /\ recordCalls[i] = 0 /\ applyCalls[i] = 0

\* C8: with an unreadable capture file the sniffer enqueues exactly one
\* error item and no packet and ends; the log gets exactly one diagnostic
\* record (unless the engine is stopped first) and the classifier is never
\* called.
C8_UnreadablePcap ==
  /\ []C8_OneErrorOnly
  /\ (PcapFileUnreadable ~> (ppc = "done" /\ Len(enqueued) = 1))
  /\ (PcapFileUnreadable ~> (Len(alert_log) = 1 \/ engine_stop_event))

C8_Witness ==
  /\ PcapFileUnreadable
  /\ ppc = "done"
  /\ Len(alert_log) = 1
  /\ alert_log[1].type = "sniffer_error"
  /\ cpc = "get"

\* C9: a classifier failure on an observation leaves the engine loop
\* running, is recorded as a diagnostic record, and triggers no mitigation
\* call for that observation.
C9_ClassifierFailureContained ==
  exc = "ClassifierError" =>
    /\ cpc # "crashed"
    /\ DiagnosticsFor(pkt.id) = 1
    /\ recordCalls[pkt.id] = 0 /\ applyCalls[pkt.id] = 0

\* C10: when add_to_blocklist or apply_block fails for an observation with
\* p >= threshold, the alert record is still appended, neither call is made
\* twice, and the engine loop keeps running.
C10_MitigationFailureStillLogged ==
  exc = "MitigationError" =>
    /\ cpc # "crashed"
    /\ Ended(pkt.id) => AlertsFor(pkt.id) = 1
    /\ recordCalls[pkt.id] <= 1 /\ applyCalls[pkt.id] <= 1


SnifferTerminated == ppc \in {"done", "crashed"}

\* The simulate source has produced all the observations the model lets it
\* produce; the code's put would go on.
AtProductionBound == ppc = "sim_put" /\ NextId > MaxProduced

\* C16: in every acquisition mode the sniffer thread ends once stop_event
\* is set, whatever the engine does and also when no further packet
\* arrives.
C16_SnifferStops == stop_event ~> (SnifferTerminated \/ AtProductionBound)

\* live mode, scapy importable, an interface named, sniff() cannot attach.
LiveAttachFailure == mode = "live" /\ scapy /\ iface = "down0"

\* C17: after a failed attach in live mode the sniffer has enqueued exactly
\* one error item and has ended.
C17_AttachFailureOneError ==
  (LiveAttachFailure /\ ppc \notin {"idle", "run", "scapy"}) =>
    /\ SnifferTerminated
    /\ Len(enqueued) = 1
    /\ enqueued[1].kind = "err"


\* C19: per alerting observation the order is add_to_blocklist, apply_block
\* with the configured mode, append: apply_block is never called before
\* add_to_blocklist has returned, an alert is in the log only after both
\* calls were made once and returned, and it carries apply_block's command.
C19_RecordApplyAppend ==
  /\ \A i \in Ids :
       /\ applyCalls[i] > 0 => recordCalls[i] = 1
       /\ (InHand(i) /\ cpc \in {"classify", "record"}) => applyCalls[i] = 0
       /\ AlertsFor(i) > 0 =>
            /\ recordCalls[i] = 1
            /\ applyCalls[i] = 1
            /\ ~InHand(i)
       /\ InHand(i) => AlertsFor(i) = 0
  /\ \A n \in DOMAIN alert_log :
       alert_log[n].type = "alert" =>
         /\ alert_log[n].mitigation_cmd # NoCmd
         /\ alert_log[n].mitigation_cmd[1] = mitigation_mode
         /\ alert_log[n].mitigation_cmd[2] \in {alert_log[n].src_ip, alert_log[n].dst_ip}
         /\ alert_log[n].mitigation_cmd[2] \in blocklist

C19_Witness ==
  /\ mitigation_mode = "apply"
  /\ Len(alert_log) >= 2
  /\ alert_log[2].type = "alert"
  /\ alert_log[2].mitigation_cmd = <<"apply", alert_log[2].src_ip>>


\* pcap mode, scapy importable, a path given, the file readable.
PcapFileReadable == mode = "pcap" /\ scapy /\ pcap = "ok.pcap"

HasIpLayer(r) == r # "noip"

SourcesOf(q) == [k \in DOMAIN q |-> q[k].src_ip]

\* C18 as stated: a readable capture of N records and no stop give exactly
\* N observations, one per record.
C18_OnePerRecord ==
  (PcapFileReadable /\ ppc = "done" /\ ~stop_event) =>
    Len(enqueued) = Len(capture)

C18_IpRecordsInOrder ==
  PcapFileReadable =>
    LET expected == SelectSeq(capture, HasIpLayer)
    IN /\ \A k \in DOMAIN enqueued : enqueued[k].kind = "pkt"
       /\ Len(enqueued) <= Len(expected)
       /\ SourcesOf(enqueued) = SubSeq(expected, 1, Len(enqueued))
       /\ (ppc = "done" /\ ~stop_event) => Len(enqueued) = Len(expected)

\* C18 amended: a readable capture and no stop give exactly one observation
\* per record that has an IP layer, in file order; records without an IP
\* layer are skipped; the sniffer then ends.
C18_ReplaysIpRecords ==
  /\ []C18_IpRecordsInOrder
  /\ (PcapFileReadable ~> ppc = "done")

C18_Witness ==
  /\ PcapFileReadable
  /\ capture = <<"noip", "10.0.0.2">>
  /\ ppc = "done"
  /\ ~stop_event
  /\ SourcesOf(enqueued) = <<"10.0.0.2">>


\* ------------------------------------------------------ process shutdown
\* A thread that has been started and has not returned or died.
Running(pc) == pc \notin {"idle", "done", "crashed", "killed"}

\* app.py:125  time.sleep(0.5) is over and main returns; the interpreter
\* exits without joining the sniffer and engine threads, which are daemon
\* threads (packet_sniffer.py:125, detection_engine.py:45): whatever they
\* are doing ends there.
MainExit ==
  /\ mpc = "sleep"
  /\ mpc' = "exited"
  /\ cpc' = IF Running(cpc) THEN "killed" ELSE cpc
  /\ ppc' = IF Running(ppc) THEN "killed" ELSE ppc
  /\ UNCHANGED <<cfgvars, extractvars, in_q, stop_event, engine_stop_event, processedAtStop, alert_log,
                 blocklist, pidx, cpc2, pkt, prob, cmd, exc, histvars>>

\* The pipeline including the end of the owning process.
SpecShutdown == Init /\ [][Next \/ MainExit]_vars

\* C12: an observation the engine has dequeued when shutdown begins is
\* handled to completion: once the engine thread has ended without an
\* exception, every observation it classified at or above the threshold has
\* its alert record in the log, also when main runs stop, sleep, exit.
C12_InFlightCompleted ==
  (~Running(cpc) /\ exc = "") =>
    \A i \in Ids :
      (probOf[i] # NoProb /\ probOf[i] >= threshold) => AlertsFor(i) = 1


\* ------------------------------------------------- unwritable alert log
\* detection_engine.py:35-36,76  open() or write() in _log_alert raises for
\* an alert; _run has no handler, the exception ends the engine thread.
LogAlertFails ==
  /\ cpc = "log"
  /\ cpc' = "crashed"
  /\ exc' = "StorageError"
  /\ UNCHANGED <<in_q, alert_log, blocklist, pkt, prob, cmd, processed,
                 probOf, classifyCalls, recordCalls, applyCalls, getsAfterStop>>
  /\ engineUnchanged

\* detection_engine.py:55-62  get returns an error item and _log_alert
\* raises for its diagnostic record.
GetErrorLogFails ==
  /\ cpc = "get"
  /\ in_q # <<>>
  /\ LET g == q_get(in_q)
     IN /\ is_error(g.item)
        /\ in_q' = g.rest
        /\ processed' = Append(processed, g.item)
        /\ pkt' = g.item
  /\ getsAfterStop' = getsAfterStop + Count(engine_stop_event)
  /\ prob' = NoProb
  /\ cmd' = NoCmd
  /\ cpc' = "crashed"
  /\ exc' = "StorageError"
  /\ UNCHANGED <<alert_log, blocklist, probOf, classifyCalls, recordCalls, applyCalls>>
  /\ engineUnchanged

\* The pipeline with an alert log whose writes can fail.
SpecStorage == Init /\ [][Next \/ LogAlertFails \/ GetErrorLogFails]_vars

\* C14: a failed write to the alert log is fatal to the pipeline: once a
\* write has failed, no further observation is accepted into the queue.
C14_StorageFailureIsFatal ==
  [][exc = "StorageError" => enqueued' = enqueued]_vars


\* ------------------------------------------- the engine used as a class
\* DetectionEngine takes its queue from the caller and has three methods the
\* caller may use in any order: the caller fills the queue itself, and calls
\* start() and stop() as it likes.

\* Observations the caller puts into the queue in one run.
MaxInjected == 2

\* What an address key of an observation dictionary can hold.
AddressFields == {Absent, "", "203.0.113.7"}

\* An address the mitigation can act on.
Resolvable(a) == a \notin {Absent, ""}

InjectedItems(id) ==
  {[kind |-> "pkt", id |-> id, src_ip |-> s, dst_ip |-> d] :
     s \in AddressFields, d \in AddressFields}
  \cup {error_item(id, "from the caller")}

apiUnchanged ==
  UNCHANGED <<cfgvars, extractvars, stop_event, alert_log, blocklist, mpc, ppc, pidx, pkt,
              prob, cmd, exc, processed, probOf, classifyCalls, recordCalls,
              applyCalls, getsAfterStop>>

\* detection_engine.py:25  in_q is the caller's queue: in_q.put(item)
ApiPut ==
  /\ Len(enqueued) < MaxInjected
  /\ \E item \in InjectedItems(NextId) : put(item)
  /\ UNCHANGED <<cpc, cpc2, engine_stop_event, processedAtStop>>
  /\ apiUnchanged

\* detection_engine.py:44-47  start(), the first call: a thread on _run
ApiStart ==
  /\ cpc = "idle"
  /\ cpc' = "loop"
  /\ UNCHANGED <<in_q, enqueued, cpc2, engine_stop_event, processedAtStop>>
  /\ apiUnchanged

\* detection_engine.py:44-47  start(), a later call: start() looks neither
\* at an earlier thread nor at the stop event and starts another thread on
\* _run.  The model has room for two threads.
ApiStartAgain ==
  /\ cpc # "idle"
  /\ cpc2 = "idle"
  /\ cpc2' = "loop"
  /\ UNCHANGED <<in_q, enqueued, cpc, engine_stop_event, processedAtStop>>
  /\ apiUnchanged

\* detection_engine.py:49-50  stop(): sets the event; nothing clears it.
ApiStop ==
  /\ engine_stop_event' = TRUE
  /\ processedAtStop' = IF engine_stop_event THEN processedAtStop ELSE Len(processed)
  /\ UNCHANGED <<in_q, enqueued, cpc, cpc2>>
  /\ apiUnchanged

engine2Unchanged ==
  UNCHANGED <<cfgvars, extractvars, stop_event, engine_stop_event, processedAtStop, mpc,
              ppc, pidx, cpc, pkt, prob, cmd, exc, enqueued>>

\* detection_engine.py:53  the loop test, in the second thread
Check2 ==
  /\ cpc2 = "loop"
  /\ cpc2' = IF LoopCondition THEN "get" ELSE "done"
  /\ UNCHANGED <<in_q, alert_log, blocklist, processed, probOf, classifyCalls,
                 recordCalls, applyCalls, getsAfterStop>>
  /\ engine2Unchanged

\* detection_engine.py:55-57  get(timeout=1.0) times out, second thread
GetTimeout2 ==
  /\ cpc2 = "get"
  /\ in_q = <<>>
  /\ cpc2' = "loop"
  /\ getsAfterStop' = getsAfterStop + Count(engine_stop_event)
  /\ UNCHANGED <<in_q, alert_log, blocklist, processed, probOf, classifyCalls,
                 recordCalls, applyCalls>>
  /\ engine2Unchanged

\* detection_engine.py:55-76  one turn of the loop body in the second
\* thread, from the get to the end of the item, every call returning.
Handle2 ==
  /\ cpc2 = "get"
  /\ in_q # <<>>
  /\ LET g == q_get(in_q)
         features == extract_features(g.item)
         ip == mitigation_target(features)
     IN /\ in_q' = g.rest
        /\ processed' = Append(processed, g.item)
        /\ IF is_error(g.item)
           THEN /\ log_alert(sniffer_error(g.item))
                /\ UNCHANGED <<blocklist, probOf, classifyCalls, recordCalls, applyCalls>>
           ELSE \E p \in ProbValues :
                  /\ probOf' = [probOf EXCEPT ![g.item.id] = p]
                  /\ classifyCalls' = [classifyCalls EXCEPT ![g.item.id] = @ + 1]
                  /\ IF p >= threshold
                     THEN /\ blocklist' = add_to_blocklist(blocklist, ip)
                          /\ recordCalls' = [recordCalls EXCEPT ![g.item.id] = @ + 1]
                          /\ applyCalls' = [applyCalls EXCEPT ![g.item.id] = @ + 1]
                          /\ log_alert(make_alert(features, p, apply_block(ip, mitigation_mode)))
                     ELSE UNCHANGED <<blocklist, recordCalls, applyCalls, alert_log>>
  /\ getsAfterStop' = getsAfterStop + Count(engine_stop_event)
  /\ cpc2' = "loop"
  /\ engine2Unchanged

\* detection_engine.py:66  predict_proba raises in the second thread, which
\* ends with the exception.
Handle2Raises ==
  /\ cpc2 = "get"
  /\ in_q # <<>>
  /\ LET g == q_get(in_q)
     IN /\ ~is_error(g.item)
        /\ in_q' = g.rest
        /\ processed' = Append(processed, g.item)
        /\ classifyCalls' = [classifyCalls EXCEPT ![g.item.id] = @ + 1]
  /\ getsAfterStop' = getsAfterStop + Count(engine_stop_event)
  /\ cpc2' = "crashed"
  /\ UNCHANGED <<alert_log, blocklist, probOf, recordCalls, applyCalls>>
  /\ engine2Unchanged

Engine2 == Check2 \/ GetTimeout2 \/ Handle2 \/ Handle2Raises

\* The caller has made no sniffer and no main loop; the configuration that
\* matters is the mitigation mode.
InitApi == Init /\ mode = "simulate"

\* The caller starts the engine once.
NextApi == ApiPut \/ ApiStart \/ ApiStop \/ Engine

SpecApi == InitApi /\ [][NextApi]_vars

\* The caller calls start() more than once.
SpecRestart == InitApi /\ [][NextApi \/ ApiStartAgain \/ Engine2]_vars

\* The alert records for observation i.
AlertRecordsFor(i) ==
  {alert_log[k] : k \in {n \in DOMAIN alert_log :
                           alert_log[n].type = "alert" /\ alert_log[n].id = i}}

\* C11: for an alerting observation the mitigation acts on the source
\* address when it is resolvable and else on the destination address; when
\* neither is resolvable, add_to_blocklist and apply_block are not called.
C11_MitigationTarget ==
  \A k \in DOMAIN processed :
    LET o == processed[k]
    IN o.kind = "pkt" =>
         /\ (~Resolvable(o.src_ip) /\ ~Resolvable(o.dst_ip)) =>
              recordCalls[o.id] = 0 /\ applyCalls[o.id] = 0
         /\ \A a \in AlertRecordsFor(o.id) :
              /\ Resolvable(o.src_ip) => a.mitigation_cmd[2] = o.src_ip
              /\ (~Resolvable(o.src_ip) /\ Resolvable(o.dst_ip)) =>
                   a.mitigation_cmd[2] = o.dst_ip

\* C13: once stop() has been called, the instance dequeues at most the one
\* observation whose receive was in progress, whatever calls follow.
C13_StoppedIsTerminal ==
  engine_stop_event => Len(processed) <= processedAtStop + 1

\* C20: two consumer loops of one engine never run at the same time.
C20_SingleConsumer == ~(Running(cpc) /\ Running(cpc2))


\* --------------------------------------------- extract_features by itself
\* Calls of extract_features on one dictionary.
MaxCalls == 2
\* Readings of time.time().
MaxClock == 1
Clock == 0..MaxClock

\* What a key of the dictionary can hold: "missing" is a key that is not
\* there, "None" is Python's None, "str:..", "int:.." and "float:.." are
\* values of these types.
FieldValues(k) ==
  CASE k \in {"src_ip", "dst_ip"} -> {"missing", "str:10.0.0.1"}
    [] k = "src_port"  -> {"missing", "None", "str:abc", "str:80", "int:80"}
    [] k = "dst_port"  -> {"missing", "int:443"}
    [] k = "length"    -> {"missing", "None", "int:1500"}
    [] k = "protocol"  -> {"missing", "None", "str:tcp", "str:gre"}
    [] k = "tcp_flags" -> {"missing", "None", "str:SA"}
    [] k = "timestamp" -> {"missing", "None", "str:abc", "float:7"}

Observations ==
  [src_ip : FieldValues("src_ip"), dst_ip : FieldValues("dst_ip"),
   src_port : FieldValues("src_port"), dst_port : FieldValues("dst_port"),
   protocol : FieldValues("protocol"), length : FieldValues("length"),
   tcp_flags : FieldValues("tcp_flags"), timestamp : FieldValues("timestamp")]

\* pkt.get(key, default)
pkt_get(p, key, default) == IF p[key] = "missing" THEN default ELSE p[key]

\* int(x) where it returns
int_value == [x \in {"int:0", "int:80", "int:443", "int:1500", "str:80"} |->
                CASE x = "int:0" -> 0
                  [] x \in {"int:80", "str:80"} -> 80
                  [] x = "int:443" -> 443
                  [] x = "int:1500" -> 1500]

\* feature_extractor.py:32-36  int(x), the default when int raises
safe_int(x, default) == IF x \in DOMAIN int_value THEN int_value[x] ELSE default

\* feature_extractor.py:19-29
normalize_protocol(proto_raw) ==
  CASE proto_raw \in {"None", "str:"} -> "OTHER"
    [] proto_raw = "str:tcp" -> "TCP"
    [] proto_raw = "str:udp" -> "UDP"
    [] proto_raw = "str:icmp" -> "ICMP"
    [] OTHER -> "OTHER"

\* feature_extractor.py:51  str(flags) if flags else ""
tcp_flags_text(p) ==
  IF pkt_get(p, "tcp_flags", "None") \in {"None", "str:"} THEN "str:"
  ELSE pkt_get(p, "tcp_flags", "str:")

SecondsPerDay == 86400

\* feature_extractor.py:14-16  the seconds since midnight of a numeric time
\* stamp; fromtimestamp raises TypeError for anything that is not a number.
normalize_time_of_day(ts) ==
  IF ts \in Nat THEN [raised |-> "", value |-> ts % SecondsPerDay]
  ELSE [raised |-> "TypeError", value |-> 0]

float_value == [x \in {"float:7"} |-> 7]

\* feature_extractor.py:52  pkt.get("timestamp", time.time()) as the number
\* or the non-number it is; now is the reading of time.time().
timestamp_of(p, now) ==
  IF p["timestamp"] = "missing" THEN now
  ELSE IF p["timestamp"] \in DOMAIN float_value THEN float_value[p["timestamp"]]
  ELSE 0 - 1

\* feature_extractor.py:39-53  extract_features(packet): the feature
\* dictionary, or the exception that leaves the function.
extract_features_all(p, now) ==
  LET tod == normalize_time_of_day(timestamp_of(p, now))
  IN [raised      |-> tod.raised,
      src_ip      |-> pkt_get(p, "src_ip", "str:0.0.0.0"),
      dst_ip      |-> pkt_get(p, "dst_ip", "str:0.0.0.0"),
      src_port    |-> safe_int(pkt_get(p, "src_port", "int:0"), 0),
      dst_port    |-> safe_int(pkt_get(p, "dst_port", "int:0"), 0),
      protocol    |-> normalize_protocol(pkt_get(p, "protocol", "None")),
      length      |-> safe_int(pkt_get(p, "length", "int:0"), 0),
      tcp_flags   |-> tcp_flags_text(p),
      time_of_day |-> tod.value]

\* One call extract_features(packet).
ExtractCall ==
  /\ Len(results) < MaxCalls
  /\ \E now \in Clock : results' = Append(results, extract_features_all(packet, now))
  /\ UNCHANGED <<cfgvars, packet, in_q, stop_event, engine_stop_event,
                 processedAtStop, alert_log, blocklist, mpc, ppc, pidx,
                 enginevars, histvars>>

InitExtract ==
  /\ InitPipeline
  /\ mode = "simulate"
  /\ mitigation_mode = "dry-run"
  /\ packet \in Observations
  /\ results = <<>>

SpecExtract == InitExtract /\ [][ExtractCall]_vars

\* C15: extract_features raises for no dictionary, whatever its fields
\* hold, and returns the same record when called again on the same
\* dictionary.
C15_TotalAndDeterministic ==
  /\ \A k \in DOMAIN results : results[k].raised = ""
  /\ \A j, k \in DOMAIN results : results[j] = results[k]
====
